---- MODULE Spec2Model ----
(***************************************************************************)
(* Model of the telemetry pipeline of the Repro React SDK                  *)
(* (ReproProvider): the rrweb event buffer, splitEventsBySize, the         *)
(* sequenced delivery of flushRrwebBuffer with backoff, and the start and  *)
(* stop operations as far as they touch the pipeline's state.              *)
(*                                                                         *)
(* The component runs on the single UI thread.  An async function runs     *)
(* without interruption up to an await on a timer or on a network          *)
(* response; each action below is one such uninterrupted run.              *)
(***************************************************************************)
EXTENDS Integers, Sequences, FiniteSets, Bags, TLC

\* ---------------------------------------------------------------- bounds
MaxEvents == 2
MaxSessions == 2
MaxFlights == 2
MaxSplitLen == 4
SmallBytes == 1024
MidBytes == 500000
BigBytes == 1000000
MaxClicks == 2
MaxTicks == 2
MaxCalls == 2
MaxActEvents == 1
TickMs == 125
OffsetMs == 1000
MaxStatus == 599

\* ------------------------------------------------------ program constants
MAX_BYTES == 900 * 1024
GZIP_THRESHOLD == 64 * 1024
CHUNK_SIZE == 80
BACKOFF_FLOOR == 250
BACKOFF_CEILING == 4000
EnvelopeBytes == 81
NetworkError == 0
SESSION_MAX_MS == 60 * 1000
AID_TTL_MS == 5000
CLICK_DEDUPE_MS == 250

EventBytes == {SmallBytes, MidBytes, BigBytes}
\* the sizes emitted into the pipeline: an event that fits a request with
\* others, and one that exceeds MAX_BYTES on its own
PipeBytes == {SmallBytes, BigBytes}
\* an event whose envelope is exactly at the compression threshold when it is
\* sent alone, and one a byte above
EdgeBytes == {GZIP_THRESHOLD - EnvelopeBytes, GZIP_THRESHOLD - EnvelopeBytes + 1}
Statuses == {200, 401, 413, 500, NetworkError}
\* every answer a delivery request can get: an HTTP status, or no answer
HttpStatuses == (100..MaxStatus) \cup {NetworkError}
\* one status of each class sendChunk tells apart: ok, too_large, fail
PipeStatuses == {200, 413, 500}
Labels == {"Click a", "Click b"}
\* an element inside the SDK's own controls (data-repro-internal="1")
SdkSurface == "repro-internal"
\* what a click can land on: an element of the application, or the SDK's own
Targets == {"Click a", SdkSurface}
\* the clockOffsetMs a session-creation response can carry
Offsets == {0, OffsetMs}
\* the three interceptors an outbound call can pass
Vias == {"fetch", "axiosAuto", "axiosManual"}

\* ---------------------------------------------------------------- helpers
Min(a, b) == IF a < b THEN a ELSE b

RECURSIVE SumBytes(_)
SumBytes(slice) ==
    IF slice = <<>> THEN 0 ELSE Head(slice).bytes + SumBytes(Tail(slice))

RECURSIVE Concat(_)
Concat(pieces) ==
    IF pieces = <<>> THEN <<>> ELSE Head(pieces) \o Concat(Tail(pieces))

Ids(slice) == {slice[j].id : j \in DOMAIN slice}
Ids2(idseq) == {idseq[j] : j \in DOMAIN idseq}
IdSeq(slice) == [j \in DOMAIN slice |-> slice[j].id]

\* Array.prototype.slice(from) and splice(0, n): the elements after the first n
SliceFrom(arr, n) == IF n >= Len(arr) THEN <<>> ELSE SubSeq(arr, n + 1, Len(arr))
\* Array.prototype.slice(0, n)
SliceTo(arr, n) == IF n <= 0 THEN <<>> ELSE SubSeq(arr, 1, Min(n, Len(arr)))

\* ------------------------------------------------- envelope and its size
\* tFirst and tLast are two timestamps of fixed width; they are counted in
\* EnvelopeBytes and carry no information the pipeline reads
mkEnvelope(slice, seq) == [type |-> "rrweb", seq |-> seq, events |-> slice]

\* bytes of JSON.stringify(env): the envelope's own fields plus its events
jsonBytes(env) == EnvelopeBytes + SumBytes(env.events)

\* ----------------------------------------------------- splitEventsBySize
AcceptsLoose(cur, seq) ==
    jsonBytes(mkEnvelope(cur, seq)) <= MAX_BYTES \/ Len(cur) <= 2

Accepts(cur, seq) ==
    jsonBytes(mkEnvelope(cur, seq)) <= MAX_BYTES \/ Len(cur) <= 1

PushHalvesLossy(stack, cur) ==
    LET mid == Len(cur) \div 2
    IN  stack \o << SliceTo(cur, mid), SliceFrom(cur, mid + 1) >>

\* the work list after a bisection: both halves are pushed, first half first
PushHalves(stack, cur) ==
    LET mid == Len(cur) \div 2
    IN  stack \o << SliceTo(cur, mid), SliceFrom(cur, mid) >>

RECURSIVE SplitLoop(_, _, _)
SplitLoop(stack, out, seq) ==
    IF stack = <<>> THEN out
    ELSE LET cur  == stack[Len(stack)]                 \* stack.pop()
             rest == SubSeq(stack, 1, Len(stack) - 1)
         IN  IF Accepts(cur, seq)
             THEN SplitLoop(rest, Append(out, cur), seq)
             ELSE SplitLoop(PushHalves(rest, cur), out, seq)

splitEventsBySize(events, seq) == SplitLoop(<< events >>, <<>>, seq)

\* ------------------------------------------------------------------ state
VARIABLES
    sdkTokenRef,      \* TRUE once bootstrap stored the SDK token
    recording,        \* React state `recording`
    sessionIdRef,     \* 0 is null, otherwise the server-issued session
    nextSeqRef,       \* next sequence number
    backoffRef,       \* ms
    isFlushingRef,    \* in-flight flag of flushRrwebBuffer
    isStoppingRef,    \* re-entrancy flag of stop
    rrBufferRef,      \* the event buffer
    rrFlushTimerRef,  \* TRUE while the periodic flush interval is armed
    recorders,        \* rrweb recorders that are still emitting
    stopRecRef,       \* the recorder the stored stop function stops (0: none)
    startPending,     \* start() calls awaiting the session-creation response
    sessionsCreated,  \* sessions the collector has issued so far
    stopPc,           \* where stop() is: "idle", "flush" or "finish"
    flights,          \* activations of flushRrwebBuffer past their guards
    emittedIn,        \* history: per emitted event, the session it was emitted in
    okLog,            \* history: pieces confirmed ok, in delivery order
    sentLog,          \* history: every events request issued
    lastAttempt,      \* history: the buffer drop of the attempt that ended last
    lastTrigger,      \* history: the last call of flushRrwebBuffer and its outcome
    teardownLog,      \* history: the teardown steps of the last stop, in order
    now,              \* Date.now(), ms
    ticks,            \* how many times the clock was advanced by a delay
    offsetRef,        \* ms to add to client time
    currentAidRef,    \* the current action identifier (0 is null)
    lastClickRef,     \* {t, label} of the last click that minted an action
    aidExpiryTimerRef,\* id of the last action-expiry timer (0 is null)
    aidTimers,        \* the pending action-expiry timeouts
    sessionExpiryTimerRef, \* due time of the pending session cap timeout (0: none)
    hasReqMarkedRef,  \* action identifiers already marked as having a request
    fetchDepth,       \* wrappers window.fetch passes through before the native fetch
    origFetchRef,     \* the depth of the fetch stored as the original one
    windowAxios,      \* window.axios: its __reproAttached flag and the SDK's interceptors on it
    clickHandlerRef,  \* TRUE while the click listener is installed
    clickLog,         \* history: every click the listener received
    actionPosts,      \* history: every action record posted to the collector
    pending,          \* outbound calls awaiting their response, as they left
    callsIssued,      \* how many outbound calls were issued so far
    lastResponse,     \* history: the answer observed last (due: to a collector call, with 401)
    capFired,         \* history: sessions whose cap timeout fired
    splitIn,          \* input of the splitter check
    splitOut,         \* its result
    splitDone,        \* TRUE once the splitter ran on splitIn
    sendCall          \* one call of a delivery function: the answer and what it made of it

pipeVars == << sdkTokenRef, recording, sessionIdRef, nextSeqRef, backoffRef,
               isFlushingRef, isStoppingRef, rrBufferRef, rrFlushTimerRef,
               recorders, stopRecRef, startPending, sessionsCreated, stopPc,
               flights, emittedIn, okLog, sentLog, lastAttempt, lastTrigger,
               teardownLog >>
actVars == << now, ticks, offsetRef, currentAidRef, lastClickRef,
              aidExpiryTimerRef, aidTimers, sessionExpiryTimerRef,
              hasReqMarkedRef, fetchDepth, origFetchRef, windowAxios,
              clickHandlerRef, clickLog, actionPosts, pending, callsIssued,
              lastResponse, capFired >>
splitVars == << splitIn, splitOut, splitDone, sendCall >>
vars == << pipeVars, actVars, splitVars >>

NoAttempt == [before |-> <<>>, after |-> <<>>, sentCount |-> 0, confirmed |-> {},
              sid |-> 0, resume |-> 0, ended |-> FALSE]
NoTrigger == [reason |-> "none", outcome |-> "none"]
NoClick == [t |-> 0, label |-> "none"]
\* an axios instance nothing was attached to
NoAxios == [reproAttached |-> FALSE, request |-> <<>>, response |-> <<>>]
NoSend == [status |-> 200, res |-> "none", unauthorized |-> FALSE]
NoResponse == [app |-> FALSE, aid |-> 0, first |-> FALSE, status |-> 200,
               due |-> FALSE, unauth |-> FALSE, post |-> 0]

PipeInit ==
    /\ sdkTokenRef = FALSE
    /\ recording = FALSE
    /\ sessionIdRef = 0
    /\ nextSeqRef = 1
    /\ backoffRef = 0
    /\ isFlushingRef = FALSE
    /\ isStoppingRef = FALSE
    /\ rrBufferRef = <<>>
    /\ rrFlushTimerRef = FALSE
    /\ recorders = {}
    /\ stopRecRef = 0
    /\ startPending = 0
    /\ sessionsCreated = 0
    /\ stopPc = "idle"
    /\ flights = <<>>
    /\ emittedIn = <<>>
    /\ okLog = <<>>
    /\ sentLog = {}
    /\ lastAttempt = NoAttempt
    /\ lastTrigger = NoTrigger
    /\ teardownLog = <<>>

\* the refs of the action side and the page around the component at mount
ActInit ==
    /\ now = 0
    /\ ticks = 0
    /\ offsetRef = 0
    /\ currentAidRef = 0
    /\ lastClickRef = NoClick
    /\ aidExpiryTimerRef = 0
    /\ aidTimers = {}
    /\ sessionExpiryTimerRef = 0
    /\ hasReqMarkedRef = {}
    /\ fetchDepth = 0
    /\ origFetchRef = 0
    /\ windowAxios = NoAxios
    /\ clickHandlerRef = FALSE
    /\ clickLog = <<>>
    /\ actionPosts = <<>>
    /\ pending = EmptyBag
    /\ callsIssued = 0
    /\ lastResponse = NoResponse
    /\ capFired = {}

Init ==
    /\ PipeInit
    /\ ActInit
    /\ splitIn = <<>>
    /\ splitOut = <<>>
    /\ splitDone = FALSE
    /\ sendCall = NoSend

\* ------------------------------------------------ sendChunk / sendChunkGzip
sendChunkLoose(status) ==
    IF status = NetworkError THEN "fail"
    ELSE IF status = 401 THEN "fail"
    ELSE IF status = 413 THEN "too_large"
    ELSE IF ~(status >= 200 /\ status <= 399) THEN "fail"
    ELSE "ok"

\* the classification both transports apply to the response
sendChunk(status) ==
    IF status = NetworkError THEN "fail"
    ELSE IF status = 401 THEN "fail"
    ELSE IF status = 413 THEN "too_large"
    ELSE IF ~(status >= 200 /\ status <= 299) THEN "fail"
    ELSE "ok"

\* lines 475-481: TRUE when the status made it call handleUnauthorized
handleUnauthorizedStatus(status) == status = 401

\* ------------------------------------------------------- flushRrwebBuffer
FlushBusyNever == FALSE

\* line 602: a flush is already running
FlushBusy == isFlushingRef

NextBackoffAdd(b) == Min(BACKOFF_CEILING, b + BACKOFF_FLOOR)

\* line 660
NextBackoff(b) == Min(BACKOFF_CEILING, (IF b = 0 THEN BACKOFF_FLOOR ELSE b) * 2)

\* line 645
OkNextSeq(pieceSeq) == pieceSeq + 1

PieceSeq(f) == f.seq + f.i

PieceLast(f) == f.pieces[Len(f.pieces)]

\* line 629: the piece the loop is at
Piece(f) == f.pieces[f.i + 1]

UsesGzipFrom(env) == jsonBytes(env) >= GZIP_THRESHOLD

\* line 638: the envelope goes through sendChunkGzip
UsesGzip(env) == jsonBytes(env) > GZIP_THRESHOLD

\* the request sendChunk / sendChunkGzip issues for the piece at index i
Request(f) ==
    [sid |-> f.sid, seq |-> PieceSeq(f), ids |-> IdSeq(Piece(f)),
     gzip |-> UsesGzip(mkEnvelope(Piece(f), f.seq))]

\* history kept with a flight: the piece its last 413 answer re-split and the
\* sub-pieces that replaced it at its position
NoResplit == [of |-> <<>>, into |-> <<>>]

NewFlight(reason) ==
    [reason |-> reason, sid |-> sessionIdRef, pc |-> "delay", seq |-> 0,
     pieces |-> <<>>, i |-> 0, sentCount |-> 0, confirmed |-> {},
     resplit |-> NoResplit, due |-> now + backoffRef]

\* lines 616-626: copy the buffer, read the base seq, pre-split
Snapshot(f, buf) ==
    [f EXCEPT !.pc = "sent", !.seq = nextSeqRef,
              !.pieces = splitEventsBySize(buf, nextSeqRef),
              !.i = 0, !.sentCount = 0]

DelayOverAlways(f) == TRUE

\* line 612: the timeout of the backoff delay is due
DelayOver(f) == now >= f.due

\* a call of flushRrwebBuffer(reason) with the buffer as it is at the call;
\* it runs to the first await: the backoff delay or the first request
flushRrwebBuffer(reason, buf) ==
    IF FlushBusy
    THEN /\ lastTrigger' = [reason |-> reason, outcome |-> "busy"]
         /\ UNCHANGED << isFlushingRef, flights, sentLog >>
    ELSE IF sessionIdRef = 0 \/ ~sdkTokenRef
    THEN /\ lastTrigger' = [reason |-> reason, outcome |-> "nosession"]
         /\ UNCHANGED << isFlushingRef, flights, sentLog >>
    ELSE IF buf = <<>>
    THEN /\ lastTrigger' = [reason |-> reason, outcome |-> "empty"]
         /\ UNCHANGED << isFlushingRef, flights, sentLog >>
    ELSE /\ Len(flights) < MaxFlights
         /\ lastTrigger' = [reason |-> reason, outcome |-> "started"]
         /\ isFlushingRef' = TRUE
         /\ IF backoffRef > 0
            THEN /\ flights' = Append(flights, NewFlight(reason))
                 /\ UNCHANGED sentLog
            ELSE LET f == Snapshot(NewFlight(reason), buf)
                 IN  /\ flights' = Append(flights, f)
                     /\ sentLog' = sentLog \cup {Request(f)}

RemoveAt(s, k) == SubSeq(s, 1, k - 1) \o SubSeq(s, k + 1, Len(s))

\* lines 611-613: the backoff delay of flight k is over
FlushDelayElapsed(k) ==
    /\ flights[k].pc = "delay"
    /\ LET f == Snapshot(flights[k], rrBufferRef)
       IN  /\ flights' = [flights EXCEPT ![k] = f]
           /\ sentLog' = sentLog \cup {Request(f)}
    /\ UNCHANGED << sdkTokenRef, recording, sessionIdRef, nextSeqRef, backoffRef,
                    isFlushingRef, isStoppingRef, rrBufferRef, rrFlushTimerRef,
                    recorders, stopRecRef, startPending, sessionsCreated, stopPc,
                    emittedIn, okLog, lastAttempt, lastTrigger, teardownLog,
                    actVars, splitVars >>

\* the same step where the clock is modelled: the timeout fires once due
FlushDelayTimed(k) ==
    /\ DelayOver(flights[k])
    /\ FlushDelayElapsed(k)

\* lines 664-670 and, for the flush stop() awaits, lines 996-1036 of stop
FlushEnd(k, f, seqNow) ==
    /\ rrBufferRef' = IF f.sentCount > 0 THEN SliceFrom(rrBufferRef, f.sentCount)
                                        ELSE rrBufferRef
    /\ lastAttempt' = [before |-> IdSeq(rrBufferRef), after |-> IdSeq(rrBufferRef'),
                       sentCount |-> f.sentCount, confirmed |-> f.confirmed,
                       sid |-> f.sid, resume |-> PieceSeq(f), ended |-> TRUE]
    /\ isFlushingRef' = FALSE
    /\ flights' = RemoveAt(flights, k)
    /\ IF f.reason = "stop"
       THEN /\ nextSeqRef' = 1
            /\ stopPc' = "finish"
            /\ teardownLog' = Append(teardownLog, "flush")
       ELSE /\ nextSeqRef' = seqNow
            /\ UNCHANGED << stopPc, teardownLog >>

\* lines 643-662: the response to the request of flight k arrives
FlushResponse(k, status) ==
    /\ flights[k].pc = "sent"
    /\ LET f   == flights[k]
           res == sendChunk(status)
       IN  IF res = "ok"
           THEN LET g == [f EXCEPT !.sentCount = @ + Len(Piece(f)),
                                   !.confirmed = @ \cup Ids(Piece(f)),
                                   !.i = @ + 1]
                IN  /\ okLog' = Append(okLog, Request(f))
                    /\ backoffRef' = 0
                    /\ IF g.i < Len(g.pieces)
                       THEN /\ nextSeqRef' = OkNextSeq(PieceSeq(f))
                            /\ flights' = [flights EXCEPT ![k] = g]
                            /\ sentLog' = sentLog \cup {Request(g)}
                            /\ UNCHANGED << rrBufferRef, isFlushingRef, stopPc,
                                            lastAttempt, teardownLog >>
                       ELSE /\ FlushEnd(k, g, OkNextSeq(PieceSeq(f)))
                            /\ UNCHANGED sentLog
           ELSE IF res = "too_large" /\ Len(Piece(f)) > 1
           THEN LET more == splitEventsBySize(Piece(f), f.seq)
                    g == [f EXCEPT !.pieces = SubSeq(@, 1, f.i) \o more
                                              \o SubSeq(@, f.i + 2, Len(@)),
                                   !.resplit = [of |-> IdSeq(Piece(f)),
                                                into |-> [j \in DOMAIN more |->
                                                             IdSeq(more[j])]]]
                IN  /\ flights' = [flights EXCEPT ![k] = g]
                    /\ sentLog' = sentLog \cup {Request(g)}
                    /\ UNCHANGED << okLog, backoffRef, nextSeqRef, rrBufferRef,
                                    isFlushingRef, stopPc, lastAttempt,
                                    teardownLog >>
           ELSE /\ backoffRef' = NextBackoff(backoffRef)
                /\ FlushEnd(k, f, nextSeqRef)
                /\ UNCHANGED << okLog, sentLog >>
    /\ UNCHANGED << sdkTokenRef, recording, sessionIdRef, isStoppingRef,
                    rrFlushTimerRef, recorders, stopRecRef, startPending,
                    sessionsCreated, emittedIn, lastTrigger, actVars,
                    splitVars >>

\* lines 826-828: the periodic interval fires
TimerTick ==
    /\ rrFlushTimerRef
    /\ flushRrwebBuffer("timer", rrBufferRef)
    /\ UNCHANGED << sdkTokenRef, recording, sessionIdRef, nextSeqRef, backoffRef,
                    isStoppingRef, rrBufferRef, rrFlushTimerRef, recorders,
                    stopRecRef, startPending, sessionsCreated, stopPc,
                    emittedIn, okLog, lastAttempt, teardownLog,
                    actVars, splitVars >>

ExceededChunkSize(buf) == Len(buf) > CHUNK_SIZE

\* line 953
ReachedChunkSize(buf) == Len(buf) >= CHUNK_SIZE

\* lines 950-956: a recorder emits an event
EmitUpTo(bytes, cap) ==
    /\ recorders # {}
    /\ Len(emittedIn) < cap
    /\ emittedIn' = Append(emittedIn, sessionIdRef)
    /\ rrBufferRef' = Append(rrBufferRef,
                             [id |-> Len(emittedIn) + 1, bytes |-> bytes,
                              sid |-> sessionIdRef, timestamp |-> now])
    /\ IF ReachedChunkSize(rrBufferRef')
       THEN flushRrwebBuffer("size", rrBufferRef')
       ELSE UNCHANGED << isFlushingRef, flights, sentLog, lastTrigger >>
    /\ UNCHANGED << sdkTokenRef, recording, sessionIdRef, nextSeqRef, backoffRef,
                    isStoppingRef, rrFlushTimerRef, recorders, stopRecRef,
                    startPending, sessionsCreated, stopPc, okLog, lastAttempt,
                    teardownLog,
                    actVars, splitVars >>

Emit(bytes) == EmitUpTo(bytes, MaxEvents)

\* ------------------------------------------------------------- lifecycle
AttachedNever(ax) == FALSE

\* lines 94 and 703: the instance carries the flag both attach functions set
AlreadyAttached(ax) == ax.reproAttached

\* lines 93-176 (attachAxios, kind "manual") and 701-777
\* (attachAxiosIfPresent, kind "auto"): the instance after the call; each
\* function registers one request and one response interceptor
attach(ax, kind) ==
    IF AlreadyAttached(ax) THEN ax
    ELSE [reproAttached |-> TRUE,
          request |-> Append(ax.request, kind),
          response |-> Append(ax.response, kind)]

KeepTimers(id) == aidTimers

\* window.clearTimeout(id): the pending timeouts without the one of that id
\* (an action-expiry timeout carries the action it was scheduled for as id)
clearTimeout(id) == {tm \in aidTimers : tm.aid # id}

\* lines 546-567: bootstrap stores the SDK token
Bootstrap ==
    /\ ~sdkTokenRef
    /\ sdkTokenRef' = TRUE
    /\ UNCHANGED << recording, sessionIdRef, nextSeqRef, backoffRef, isFlushingRef,
                    isStoppingRef, rrBufferRef, rrFlushTimerRef, recorders,
                    stopRecRef, startPending, sessionsCreated, stopPc, flights,
                    emittedIn, okLog, sentLog, lastAttempt, lastTrigger,
                    teardownLog,
                    actVars, splitVars >>

\* lines 796-811: start() up to the session-creation request
StartCallUpTo(cap) ==
    /\ sdkTokenRef
    /\ ~recording
    /\ sessionsCreated + startPending < cap
    /\ startPending' = startPending + 1
    /\ UNCHANGED << sdkTokenRef, recording, sessionIdRef, nextSeqRef, backoffRef,
                    isFlushingRef, isStoppingRef, rrBufferRef, rrFlushTimerRef,
                    recorders, stopRecRef, sessionsCreated, stopPc, flights,
                    emittedIn, okLog, sentLog, lastAttempt, lastTrigger,
                    teardownLog,
                    actVars, splitVars >>

StartCall == StartCallUpTo(MaxSessions)

\* lines 812-815: the session-creation request is refused
StartRefused ==
    /\ startPending > 0
    /\ startPending' = startPending - 1
    /\ UNCHANGED << sdkTokenRef, recording, sessionIdRef, nextSeqRef, backoffRef,
                    isFlushingRef, isStoppingRef, rrBufferRef, rrFlushTimerRef,
                    recorders, stopRecRef, sessionsCreated, stopPc, flights,
                    emittedIn, okLog, sentLog, lastAttempt, lastTrigger,
                    teardownLog,
                    actVars, splitVars >>

\* lines 816-973: the session is created; the rest of start() runs at once
\* `off` is the clockOffsetMs of the response
StartCreated(off) ==
    /\ startPending > 0
    /\ startPending' = startPending - 1
    /\ sessionsCreated' = sessionsCreated + 1
    /\ sessionIdRef' = sessionsCreated + 1
    /\ nextSeqRef' = 1
    /\ rrBufferRef' = <<>>
    /\ rrFlushTimerRef' = TRUE
    /\ recorders' = recorders \cup {sessionsCreated + 1}
    /\ stopRecRef' = sessionsCreated + 1
    /\ recording' = TRUE
    /\ offsetRef' = off
    /\ origFetchRef' = fetchDepth                \* line 821
    /\ fetchDepth' = fetchDepth + 1              \* line 830
    /\ windowAxios' = attach(windowAxios, "auto") \* line 877
    /\ clickHandlerRef' = TRUE                   \* lines 881-884, 945-946
    /\ sessionExpiryTimerRef' = now + SESSION_MAX_MS
    /\ UNCHANGED << sdkTokenRef, backoffRef, isFlushingRef, isStoppingRef, stopPc,
                    flights, emittedIn, okLog, sentLog, lastAttempt,
                    lastTrigger, teardownLog, now, ticks, currentAidRef,
                    lastClickRef, aidExpiryTimerRef, aidTimers,
                    hasReqMarkedRef, clickLog, actionPosts, pending,
                    callsIssued, lastResponse, capFired, splitVars >>

\* line 979: the guard of stop(), with `recording` as the closure of the
\* calling render holds it
StopRuns(rec) == rec /\ ~isStoppingRef

\* The function object `stop` is created anew by every render.  start() runs
\* in a render where `recording` is false (line 797) and stores _cleanup on the
\* stop of that render (line 961); a stop() that passes line 979 belongs to a
\* later render, where `recording` is true, and finds no _cleanup at line 985.
CleanupRegistered(rec) == ~rec

\* lines 977-998: stop() as the render whose `recording` is rec calls it, up to
\* the end of its final flush call; when that call returns at once stop goes
\* on to lines 1000-1040 and issues the finish call
stop(rec) ==
    /\ sessionExpiryTimerRef' = 0                 \* line 978
    /\ IF StopRuns(rec)
       THEN /\ isStoppingRef' = TRUE
            /\ recorders' = recorders \ {stopRecRef}
            /\ clickHandlerRef' = IF CleanupRegistered(rec) THEN FALSE
                                                           ELSE clickHandlerRef
            /\ rrFlushTimerRef' = FALSE
            /\ flushRrwebBuffer("stop", rrBufferRef)
            /\ IF lastTrigger'.outcome = "started"
               THEN /\ stopPc' = "flush"
                    /\ UNCHANGED nextSeqRef
               ELSE /\ stopPc' = "finish"
                    /\ nextSeqRef' = 1
            /\ teardownLog' =
                   << "recorder" >>
                   \o (IF CleanupRegistered(rec) THEN << "listener" >> ELSE <<>>)
                   \o << "flushTimer" >>
                   \o (IF lastTrigger'.outcome = "started" THEN <<>>
                                                           ELSE << "flush" >>)
       ELSE UNCHANGED << isStoppingRef, recorders, clickHandlerRef,
                         rrFlushTimerRef, isFlushingRef, flights, sentLog,
                         lastTrigger, stopPc, nextSeqRef, teardownLog >>

\* line 1401: the button of a render in which `recording` is true calls
\* stop(); a call made while a stop is running returns at line 979 and is
\* left out
StopCall ==
    /\ StopRuns(recording)
    /\ stop(recording)
    /\ UNCHANGED << sdkTokenRef, recording, sessionIdRef, backoffRef, rrBufferRef,
                    stopRecRef, startPending, sessionsCreated, emittedIn,
                    okLog, lastAttempt, now, ticks, offsetRef, currentAidRef,
                    lastClickRef, aidExpiryTimerRef, aidTimers,
                    hasReqMarkedRef, fetchDepth, origFetchRef, windowAxios,
                    clickLog, actionPosts, pending, callsIssued, lastResponse,
                    capFired, splitVars >>

\* lines 1040-1084: the finish call is answered (or throws); the finally block
StopFinished ==
    /\ stopPc = "finish"
    /\ stopPc' = "idle"
    /\ sessionIdRef' = 0
    /\ recording' = FALSE
    /\ isStoppingRef' = FALSE
    /\ fetchDepth' = origFetchRef                 \* line 1073
    /\ currentAidRef' = 0
    /\ hasReqMarkedRef' = {}
    /\ aidTimers' = clearTimeout(aidExpiryTimerRef)
    /\ lastClickRef' = NoClick
    /\ teardownLog' = teardownLog \o << "fetch", "sid" >>
                         \o (IF aidExpiryTimerRef # 0 THEN << "aidTimer" >>
                                                      ELSE <<>>)
    /\ UNCHANGED << sdkTokenRef, nextSeqRef, backoffRef, isFlushingRef, rrBufferRef,
                    rrFlushTimerRef, recorders, stopRecRef, startPending,
                    sessionsCreated, flights, emittedIn, okLog, sentLog,
                    lastAttempt, lastTrigger, now, ticks, offsetRef,
                    aidExpiryTimerRef, sessionExpiryTimerRef, origFetchRef,
                    windowAxios, clickHandlerRef, clickLog, actionPosts,
                    pending, callsIssued, lastResponse, capFired, splitVars >>

Next ==
    \/ Bootstrap
    \/ StartCall
    \/ StartRefused
    \/ StartCreated(0)
    \/ \E bytes \in PipeBytes : Emit(bytes)
    \/ TimerTick
    \/ \E k \in DOMAIN flights : FlushDelayElapsed(k)
    \/ \E k \in DOMAIN flights : \E status \in PipeStatuses : FlushResponse(k, status)
    \/ StopCall
    \/ StopFinished

Spec == Init /\ [][Next]_vars

\* --------------------------------------------------------- the action side
\* the due times of the pending timeouts
Deadlines ==
    {tm.at : tm \in aidTimers}
    \cup (IF sessionExpiryTimerRef # 0 THEN {sessionExpiryTimerRef} ELSE {})

\* TickMs pass; a timeout that is due fires before the clock moves on
Tick ==
    /\ ticks < MaxTicks
    /\ \A dl \in Deadlines : now + TickMs <= dl
    /\ now' = now + TickMs
    /\ ticks' = ticks + 1
    /\ UNCHANGED << pipeVars, offsetRef, currentAidRef, lastClickRef,
                    aidExpiryTimerRef, aidTimers, sessionExpiryTimerRef,
                    hasReqMarkedRef, fetchDepth, origFetchRef, windowAxios,
                    clickHandlerRef, clickLog, actionPosts, pending, callsIssued,
                    lastResponse, capFired, splitVars >>

\* time passes up to the timeout that is due next
Elapse ==
    /\ Deadlines # {}
    /\ \A dl \in Deadlines : dl > now
    /\ now' = CHOOSE dl \in Deadlines : \A o \in Deadlines : dl <= o
    /\ UNCHANGED << pipeVars, ticks, offsetRef, currentAidRef, lastClickRef,
                    aidExpiryTimerRef, aidTimers, sessionExpiryTimerRef,
                    hasReqMarkedRef, fetchDepth, origFetchRef, windowAxios,
                    clickHandlerRef, clickLog, actionPosts, pending, callsIssued,
                    lastResponse, capFired, splitVars >>

\* time passes up to the end of the backoff delay of flight k
ElapseDelay(k) ==
    /\ flights[k].pc = "delay"
    /\ ticks < MaxTicks
    /\ now < flights[k].due
    /\ now' = flights[k].due
    /\ ticks' = ticks + 1
    /\ UNCHANGED << pipeVars, offsetRef, currentAidRef, lastClickRef,
                    aidExpiryTimerRef, aidTimers, sessionExpiryTimerRef,
                    hasReqMarkedRef, fetchDepth, origFetchRef, windowAxios,
                    clickHandlerRef, clickLog, actionPosts, pending, callsIssued,
                    lastResponse, capFired, splitVars >>

\* line 58: newAID() returns an identifier not used before
newAID == Cardinality({j \in DOMAIN clickLog : clickLog[j].aid # 0}) + 1

nowClient == now

\* line 62
nowServer == now + offsetRef

InternalNever(target) == FALSE

\* line 891: the click landed inside the SDK's own controls
IsInternalTarget(target) == target = SdkSurface

NeverDuplicate(t, label) == FALSE

\* line 896: a same-label click within the dedupe window
IsDuplicateClick(t, label) ==
    /\ lastClickRef # NoClick
    /\ t - lastClickRef.t < CLICK_DEDUPE_MS
    /\ lastClickRef.label = label

ClickEntry(t, label, sid, aid) ==
    [t |-> t, at |-> now, label |-> label, sid |-> sid, aid |-> aid]

\* lines 886-943: the click listener receives a click on an element of the
\* application
ClickUpTo(label, cap) ==
    /\ clickHandlerRef
    /\ Len(clickLog) < cap
    /\ LET t == nowServer
       IN  IF sessionIdRef = 0 \/ ~sdkTokenRef
           THEN /\ clickLog' = Append(clickLog, ClickEntry(t, label, 0, 0))
                /\ UNCHANGED << lastClickRef, currentAidRef, aidTimers,
                                aidExpiryTimerRef, actionPosts >>
           ELSE IF IsInternalTarget(label)
           THEN /\ clickLog' = Append(clickLog,
                                      ClickEntry(t, label, sessionIdRef, 0))
                /\ UNCHANGED << lastClickRef, currentAidRef, aidTimers,
                                aidExpiryTimerRef, actionPosts >>
           ELSE IF IsDuplicateClick(t, label)
           THEN /\ clickLog' = Append(clickLog,
                                      ClickEntry(t, label, sessionIdRef, 0))
                /\ UNCHANGED << lastClickRef, currentAidRef, aidTimers,
                                aidExpiryTimerRef, actionPosts >>
           ELSE LET aid == newAID
                IN  /\ lastClickRef' = [t |-> t, label |-> label]
                    /\ currentAidRef' = aid
                    /\ aidTimers' = clearTimeout(aidExpiryTimerRef)
                                     \cup {[aid |-> aid, at |-> now + AID_TTL_MS]}
                    /\ aidExpiryTimerRef' = aid
                    /\ actionPosts' = Append(actionPosts,
                                             [aid |-> aid, hasReq |-> FALSE,
                                              sid |-> sessionIdRef,
                                              answered |-> FALSE])
                    /\ clickLog' = Append(clickLog,
                                          ClickEntry(t, label, sessionIdRef, aid))
    /\ UNCHANGED << pipeVars, now, ticks, offsetRef, sessionExpiryTimerRef,
                    hasReqMarkedRef, fetchDepth, origFetchRef, windowAxios,
                    clickHandlerRef, pending, callsIssued, lastResponse, capFired,
                    splitVars >>

Click(label) == ClickUpTo(label, MaxClicks)

\* lines 906-908: an action-expiry timeout fires
AidExpiry(tm) ==
    /\ tm \in aidTimers
    /\ tm.at <= now
    /\ aidTimers' = aidTimers \ {tm}
    /\ currentAidRef' = 0
    /\ UNCHANGED << pipeVars, now, ticks, offsetRef, lastClickRef,
                    aidExpiryTimerRef, sessionExpiryTimerRef, hasReqMarkedRef,
                    fetchDepth, origFetchRef, windowAxios, clickHandlerRef,
                    clickLog, actionPosts, pending, callsIssued, lastResponse,
                    capFired, splitVars >>

\* line 797: start() goes on only in a render whose `recording` is false, and
\* the stop the timeout of line 969 calls is the stop of that render
RecordingAtStart == FALSE

\* lines 969-971: the session cap timeout fires
SessionExpiry ==
    /\ sessionExpiryTimerRef # 0
    /\ sessionExpiryTimerRef <= now
    /\ capFired' = capFired \cup {sessionIdRef}
    /\ stop(RecordingAtStart)
    /\ UNCHANGED << sdkTokenRef, recording, sessionIdRef, backoffRef, rrBufferRef,
                    stopRecRef, startPending, sessionsCreated, emittedIn,
                    okLog, lastAttempt, now, ticks, offsetRef, currentAidRef,
                    lastClickRef, aidExpiryTimerRef, aidTimers,
                    hasReqMarkedRef, fetchDepth, origFetchRef, windowAxios,
                    clickLog, actionPosts, pending, callsIssued, lastResponse,
                    splitVars >>

\* ------------------------------------------------------- the interceptors
\* line 859: the function every fetch wrapper calls through to, read from the
\* shared ref at the time of the call; 0 is the native fetch, d > 0 a wrapper
\* installed over the function of depth d - 1
WrapperTarget == origFetchRef

\* how many times one call of window.fetch reaches the native fetch: a wrapper
\* whose target is a wrapper calls that wrapper, which reads the same ref and
\* calls it again, without end
NativeCallsPerFetch ==
    IF fetchDepth = 0 THEN 1
    ELSE IF WrapperTarget = 0 THEN 1
    ELSE 0

\* the call passes an interceptor of the SDK: the fetch wrapper while
\* window.fetch is wrapped, window.axios once start() attached to it, and an
\* instance the application handed to attachAxios
Intercepted(via) ==
    CASE via = "fetch" -> fetchDepth > 0
      [] via = "axiosAuto" -> windowAxios.request # <<>>
      [] OTHER -> TRUE

BugHeadersAlsoInternal(internal, sdkInternal) ==
    sessionIdRef # 0 /\ currentAidRef # 0 /\ ~internal

\* lines 852, 721 and 138
BugHeaders(internal, sdkInternal) ==
    sessionIdRef # 0 /\ currentAidRef # 0 /\ ~internal /\ ~sdkInternal

\* the tenantId prop of the provider is a string the application sets
tenantIdRef == TRUE

\* lines 847 with 308-314 (fetch wrapper), 713-718 and 123-127 (axios)
TenantHeader(via, internal) ==
    IF via = "fetch" THEN tenantIdRef ELSE internal /\ tenantIdRef

\* lines 128-136: only attachAxios adds x-sdk-token and Authorization
SdkTokenHeader(via, internal) == via = "axiosManual" /\ internal /\ sdkTokenRef
AuthHeader(via, internal) == via = "axiosManual" /\ internal

\* the interceptors a call made through `via` passes: window.axios carries
\* the ones of the function that attached to it first
HandlerOf(via) ==
    IF via = "axiosAuto" /\ windowAxios.request = << "manual" >>
    THEN "axiosManual"
    ELSE via

\* the request side of the interceptors: lines 830-856, 706-727 and 97-143
AppCall(via, internal, sdkInternal) ==
    /\ callsIssued < MaxCalls
    /\ callsIssued' = callsIssued + 1
    /\ LET seen == Intercepted(via)
           h    == HandlerOf(via)
           bug  == seen /\ BugHeaders(internal, sdkInternal)
           call == [via |-> via, handler |-> h, internal |-> internal,
                    sdkInternal |-> sdkInternal, seen |-> seen,
                    sidAt |-> sessionIdRef, aidAt |-> currentAidRef,
                    at |-> now,
                    hdrStart |-> IF seen /\ ~sdkInternal THEN nowServer ELSE 0,
                    hdrSid |-> IF bug THEN sessionIdRef ELSE 0,
                    hdrAid |-> IF bug THEN currentAidRef ELSE 0,
                    hdrTenant |-> seen /\ TenantHeader(h, internal),
                    hdrSdkToken |-> seen /\ SdkTokenHeader(h, internal),
                    hdrAuth |-> seen /\ AuthHeader(h, internal)]
       IN  pending' = pending (+) SetToBag({call})
    /\ UNCHANGED << pipeVars, now, ticks, offsetRef, currentAidRef, lastClickRef,
                    aidExpiryTimerRef, aidTimers, sessionExpiryTimerRef,
                    hasReqMarkedRef, fetchDepth, origFetchRef, windowAxios,
                    clickHandlerRef, clickLog, actionPosts, lastResponse,
                    capFired, splitVars >>

MarkedNever(aid) == FALSE

\* lines 870, 745 and 159: the action is already in the dedup set
MarkedAlready(aid) == aid \in hasReqMarkedRef

\* lines 865-871, 739-746 and 159: the response is the first one of an
\* application call under the current action
FirstUnderAction(p) ==
    /\ p.seen
    /\ ~p.internal
    /\ ~p.sdkInternal
    /\ sessionIdRef # 0
    /\ currentAidRef # 0
    /\ (p.handler = "axiosAuto" => sdkTokenRef)
    /\ ~MarkedAlready(currentAidRef)

\* lines 749-771: the interceptor of window.axios posts the request marker;
\* the fetch wrapper (lines 865-873) and attachAxios (lines 159-161) only add
\* the action to the dedup set
PostsMarker(via) == via = "axiosAuto"

\* what an axios instance does with an answer its validateStatus refuses
\* (by default every status outside 2xx): the response interceptors' error
\* handlers run instead of their success handlers; fetch resolves on every
\* status
MayThrow(p, status) == p.handler # "fetch" /\ status # 200

\* lines 860-862 (fetch wrapper), 735-737 and 775 (window.axios: the error
\* handler only rejects), 153-155 and 165-171 (attachAxios: both handlers)
InvokesUnauthorized(p, status, thrown) ==
    /\ p.seen
    /\ p.internal
    /\ status = 401
    /\ (p.handler = "axiosAuto" => ~thrown)

\* the response side of the interceptors: lines 859-875, 729-776 and 145-176;
\* the answer has the given status and, when thrown, was refused by the
\* instance's validateStatus.  handleUnauthorized runs the logout of the
\* render that created the interceptor, in which `recording` is false (line
\* 455): it does not stop the session
AppResponse(p, status, thrown) ==
    /\ p \in BagToSet(pending)
    /\ thrown => MayThrow(p, status)
    /\ LET first == ~thrown /\ FirstUnderAction(p)
       IN  /\ hasReqMarkedRef' = IF first THEN hasReqMarkedRef \cup {currentAidRef}
                                          ELSE hasReqMarkedRef
           /\ actionPosts' = IF first /\ PostsMarker(p.handler)
                             THEN Append(actionPosts,
                                         [aid |-> currentAidRef, hasReq |-> TRUE,
                                          sid |-> sessionIdRef,
                                          answered |-> FALSE])
                             ELSE actionPosts
           /\ lastResponse' =
                  [app |-> p.seen /\ ~p.internal /\ ~p.sdkInternal,
                   aid |-> currentAidRef, first |-> first,
                   status |-> status,
                   due |-> p.seen /\ p.internal /\ status = 401,
                   unauth |-> InvokesUnauthorized(p, status, thrown),
                   post |-> 0]
    /\ pending' = pending (-) SetToBag({p})
    /\ UNCHANGED << pipeVars, now, ticks, offsetRef, currentAidRef, lastClickRef,
                    aidExpiryTimerRef, aidTimers, sessionExpiryTimerRef,
                    fetchDepth, origFetchRef, windowAxios, clickHandlerRef,
                    clickLog, callsIssued, capFired, splitVars >>

\* line 93: the application hands window.axios to attachAxios
AttachAxios ==
    /\ windowAxios' = attach(windowAxios, "manual")
    /\ UNCHANGED << pipeVars, now, ticks, offsetRef, currentAidRef, lastClickRef,
                    aidExpiryTimerRef, aidTimers, sessionExpiryTimerRef,
                    hasReqMarkedRef, fetchDepth, origFetchRef, clickHandlerRef,
                    clickLog, actionPosts, pending, callsIssued, lastResponse,
                    capFired, splitVars >>

PostRetriedOnFail(post, status) ==
    IF status = 200 THEN <<>> ELSE << [post EXCEPT !.answered = FALSE] >>

\* lines 937-942 and 749-771: the posts the SDK sends after the answer to one
\* of its action-record or request-marker posts: none, whatever the answer
PostFollowUp(post, status) == <<>>

\* line 940: only the action-record post of the click handler looks at the
\* status of its answer
PostInvokesUnauthorized(post, status) == ~post.hasReq /\ status = 401

\* lines 937-942 and 771: the answer to the j-th post arrives (or the request
\* throws: NetworkError)
PostResponse(j, status) ==
    /\ j \in DOMAIN actionPosts
    /\ ~actionPosts[j].answered
    /\ actionPosts' = [actionPosts EXCEPT ![j].answered = TRUE]
                          \o PostFollowUp(actionPosts[j], status)
    /\ lastResponse' = [NoResponse EXCEPT
                            !.status = status, !.due = (status = 401), !.post = j,
                            !.unauth = PostInvokesUnauthorized(actionPosts[j], status)]
    /\ UNCHANGED << pipeVars, now, ticks, offsetRef, currentAidRef, lastClickRef,
                    aidExpiryTimerRef, aidTimers, sessionExpiryTimerRef,
                    hasReqMarkedRef, fetchDepth, origFetchRef, windowAxios,
                    clickHandlerRef, clickLog, pending, callsIssued, capFired,
                    splitVars >>

\* The three specifications below explore the action side.  Each leaves out
\* actions that write none of the variables its claims read; the sessions
\* they start are one fewer than in Spec.
SideSessions == MaxSessions - 1

\* Clicks, the action-expiry timeouts and the clock.
ActNext ==
    \/ Bootstrap
    \/ StartCallUpTo(SideSessions)
    \/ StartRefused
    \/ StartCreated(0)
    \/ StopCall
    \/ StopFinished
    \/ \E label \in Labels : Click(label)
    \/ \E tm \in aidTimers : AidExpiry(tm)
    \/ SessionExpiry
    \/ Tick
    \/ Elapse

ActSpec == Init /\ [][ActNext]_vars

\* The teardown: stop with its final flush (one small event, the collector
\* answering ok or fail), an action minted by a click, and the timeouts.
StopStatuses == {200, 500}

StopNext ==
    \/ Bootstrap
    \/ StartCallUpTo(SideSessions)
    \/ StartRefused
    \/ StartCreated(0)
    \/ EmitUpTo(SmallBytes, MaxActEvents)
    \/ TimerTick
    \/ \E k \in DOMAIN flights : FlushDelayElapsed(k)
    \/ \E k \in DOMAIN flights : \E status \in StopStatuses : FlushResponse(k, status)
    \/ StopCall
    \/ StopFinished
    \/ \E label \in Labels : Click(label)
    \/ \E tm \in aidTimers : AidExpiry(tm)
    \/ SessionExpiry
    \/ Elapse

StopSpec == Init /\ [][StopNext]_vars

\* The interceptors: outbound calls and their responses, interleaved with
\* clicks and the lifecycle, all within the lifetime of the actions minted (no
\* timeout becomes due).
NetLabel == CHOOSE label \in Labels : TRUE
NetClicks == MaxClicks - 1

NetNext ==
    \/ Bootstrap
    \/ StartCallUpTo(SideSessions)
    \/ StartRefused
    \/ StartCreated(0)
    \/ StopCall
    \/ StopFinished
    \/ ClickUpTo(NetLabel, NetClicks)
    \/ \E via \in Vias : \E internal \in BOOLEAN : \E sdkInternal \in BOOLEAN :
           AppCall(via, internal, sdkInternal)
    \/ \E p \in BagToSet(pending) : AppResponse(p, 200, FALSE)

NetSpec == Init /\ [][NetNext]_vars

\* Sessions whose creation responses carry different clock offsets, with as
\* many clicks as sessions, on the application and on the SDK's own controls,
\* one call through the fetch wrapper during a session, and the clock.
ClockNext ==
    \/ Bootstrap
    \/ StartCallUpTo(MaxSessions)
    \/ StartRefused
    \/ \E off \in Offsets : StartCreated(off)
    \/ StopCall
    \/ StopFinished
    \/ \E target \in Targets : ClickUpTo(target, MaxSessions)
    \/ AppCall("fetch", FALSE, FALSE) /\ pending = EmptyBag /\ sessionIdRef # 0
    \/ Tick /\ ticks < SideSessions

ClockSpec == Init /\ [][ClockNext]_vars

\* The backoff delay against the clock: one kind of event, the collector
\* answering ok or fail, triggers and emissions while an attempt waits.
DelayNext ==
    \/ Bootstrap
    \/ StartCallUpTo(SideSessions)
    \/ StartRefused
    \/ StartCreated(0)
    \/ EmitUpTo(SmallBytes, MaxEvents)
    \/ TimerTick
    \/ \E k \in DOMAIN flights : FlushDelayTimed(k)
    \/ \E k \in DOMAIN flights : \E status \in StopStatuses : FlushResponse(k, status)
    \/ StopCall
    \/ StopFinished
    \/ Tick
    \/ \E k \in DOMAIN flights : ElapseDelay(k)

DelaySpec == Init /\ [][DelayNext]_vars

\* The choice of transport: events whose envelopes lie at and just above the
\* compression threshold.
GzipNext ==
    \/ Bootstrap
    \/ StartCallUpTo(SideSessions)
    \/ StartRefused
    \/ StartCreated(0)
    \/ \E bytes \in EdgeBytes : Emit(bytes)
    \/ TimerTick
    \/ \E k \in DOMAIN flights : FlushDelayElapsed(k)
    \/ \E k \in DOMAIN flights : \E status \in PipeStatuses : FlushResponse(k, status)
    \/ StopCall
    \/ StopFinished

GzipSpec == Init /\ [][GzipNext]_vars

\* Attachment to window.axios by both functions, and the answers the
\* interceptors observe: ok or 401, refused by validateStatus or not.
RespStatuses == {200, 401}

AttachNext ==
    \/ Bootstrap
    \/ StartCallUpTo(SideSessions)
    \/ StartRefused
    \/ StartCreated(0)
    \/ StopCall
    \/ StopFinished
    \/ AttachAxios
    \/ \E via \in Vias : \E internal \in BOOLEAN : AppCall(via, internal, FALSE)
    \/ \E p \in BagToSet(pending) : \E status \in RespStatuses :
           \E thrown \in BOOLEAN : AppResponse(p, status, thrown)

AttachSpec == Init /\ [][AttachNext]_vars

\* The posts of the SDK and their answers: action records posted by clicks,
\* the request marker posted by the interceptor of window.axios.
PostNext ==
    \/ Bootstrap
    \/ StartCallUpTo(SideSessions)
    \/ StartRefused
    \/ StartCreated(0)
    \/ StopCall
    \/ StopFinished
    \/ ClickUpTo(NetLabel, MaxClicks)
    \/ AppCall("axiosAuto", FALSE, FALSE)
    \/ \E p \in BagToSet(pending) : AppResponse(p, 200, FALSE)
    \/ \E j \in DOMAIN actionPosts : \E status \in Statuses :
           PostResponse(j, status)

PostSpec == Init /\ [][PostNext]_vars

\* ------------------------------------------- the splitter on its own inputs
SplitEvents(n) == [1..n -> EventBytes]

SplitInit ==
    /\ PipeInit
    /\ ActInit
    /\ splitOut = <<>>
    /\ splitDone = FALSE
    /\ sendCall = NoSend
    /\ \E n \in 0..MaxSplitLen : \E b \in SplitEvents(n) :
           splitIn = [j \in 1..n |-> [id |-> j, bytes |-> b[j], sid |-> 1, timestamp |-> 0]]

SplitRun ==
    /\ ~splitDone
    /\ splitDone' = TRUE
    /\ splitOut' = splitEventsBySize(splitIn, 1)
    /\ UNCHANGED << splitIn, sendCall, pipeVars, actVars >>

SplitNext == SplitRun

SplitSpec == SplitInit /\ [][SplitNext]_vars

\* ------------------------------------------- a buffer near CHUNK_SIZE
\* the events of session 1 in a state that n emissions lead to
Emitted(n) == [j \in 1..n |-> [id |-> j, bytes |-> SmallBytes, sid |-> 1,
                               timestamp |-> 0]]

\* the state after bootstrap, one start and n emissions
Prefilled(n) ==
    /\ sdkTokenRef = TRUE
    /\ recording = TRUE
    /\ sessionIdRef = 1
    /\ nextSeqRef = 1
    /\ backoffRef = 0
    /\ isFlushingRef = FALSE
    /\ isStoppingRef = FALSE
    /\ rrBufferRef = Emitted(n)
    /\ rrFlushTimerRef = TRUE
    /\ recorders = {1}
    /\ stopRecRef = 1
    /\ startPending = 0
    /\ sessionsCreated = 1
    /\ stopPc = "idle"
    /\ flights = <<>>
    /\ emittedIn = [j \in 1..n |-> 1]
    /\ okLog = <<>>
    /\ sentLog = {}
    /\ lastAttempt = NoAttempt
    /\ lastTrigger = NoTrigger
    /\ teardownLog = <<>>
    /\ now = 0
    /\ ticks = 0
    /\ offsetRef = 0
    /\ currentAidRef = 0
    /\ lastClickRef = NoClick
    /\ aidExpiryTimerRef = 0
    /\ aidTimers = {}
    /\ sessionExpiryTimerRef = SESSION_MAX_MS
    /\ hasReqMarkedRef = {}
    /\ fetchDepth = 1
    /\ origFetchRef = 0
    /\ windowAxios = attach(NoAxios, "auto")
    /\ clickHandlerRef = TRUE
    /\ clickLog = <<>>
    /\ actionPosts = <<>>
    /\ pending = EmptyBag
    /\ callsIssued = 0
    /\ lastResponse = NoResponse
    /\ capFired = {}
    /\ splitIn = <<>>
    /\ splitOut = <<>>
    /\ splitDone = FALSE
    /\ sendCall = NoSend

\* the session has buffered a few events fewer than CHUNK_SIZE
SizeInit == \E n \in (CHUNK_SIZE - MaxActEvents - 1)..(CHUNK_SIZE - 1) : Prefilled(n)

\* Emissions across CHUNK_SIZE, with the timer, the answers and stop.
SizeNext ==
    \/ EmitUpTo(SmallBytes, CHUNK_SIZE + MaxActEvents)
    \/ TimerTick
    \/ \E k \in DOMAIN flights : FlushDelayElapsed(k)
    \/ \E k \in DOMAIN flights : \E status \in StopStatuses : FlushResponse(k, status)
    \/ StopCall
    \/ StopFinished

SizeSpec == SizeInit /\ [][SizeNext]_vars

\* ------------------------------- the delivery functions on their answers
SendInit ==
    /\ PipeInit
    /\ ActInit
    /\ splitIn = <<>>
    /\ splitOut = <<>>
    /\ splitDone = FALSE
    /\ \E status \in HttpStatuses : sendCall = [NoSend EXCEPT !.status = status]

\* lines 673-694 and 575-599: the request is answered with sendCall.status
SendRun ==
    /\ sendCall.res = "none"
    /\ sendCall' = [sendCall EXCEPT
                        !.res = sendChunk(sendCall.status),
                        !.unauthorized =
                            /\ sendCall.status # NetworkError
                            /\ handleUnauthorizedStatus(sendCall.status)]
    /\ UNCHANGED << splitIn, splitOut, splitDone, pipeVars, actVars >>

SendNext == SendRun

SendSpec == SendInit /\ [][SendNext]_vars

\* ================================================================ claims

SessionIds == 1..MaxSessions

\* the sequence numbers confirmed ok for session s, in delivery order
OkSeqs(s) ==
    LET mine == SelectSeq(okLog, LAMBDA r : r.sid = s)
    IN  [j \in DOMAIN mine |-> mine[j].seq]

\* the ids of the events confirmed ok for session s
OkIds(s) ==
    UNION { {okLog[j].ids[m] : m \in DOMAIN okLog[j].ids} :
            j \in {n \in DOMAIN okLog : okLog[n].sid = s} }

PieceBytes(piece) == jsonBytes(mkEnvelope(piece, 1))

\* C1: concatenating the pieces splitEventsBySize returns, in the order it
\* returns them, reproduces the input event order exactly.
C1_ConcatReproducesInput ==
    splitDone => Concat(splitOut) = splitIn

\* C2: every piece splitEventsBySize returns has an envelope of at most
\* MAX_BYTES or holds exactly one event.
C2_PieceFitsOrSingle ==
    splitDone =>
        \A j \in DOMAIN splitOut :
            PieceBytes(splitOut[j]) <= MAX_BYTES \/ Len(splitOut[j]) = 1

\* C2 witness: a bisection happened and an oversized one-event piece was accepted
C2_Witness ==
    /\ splitDone
    /\ Len(splitOut) >= 2
    /\ \E j \in DOMAIN splitOut :
           Len(splitOut[j]) = 1 /\ PieceBytes(splitOut[j]) > MAX_BYTES

\* C3: within one session the sequence numbers of the pieces confirmed ok are
\* 1, 2, 3, ... in delivery order (increasing, no gap, none confirmed twice).
C3_OkSeqsContiguous ==
    \A s \in SessionIds :
        \A j \in DOMAIN OkSeqs(s) : OkSeqs(s)[j] = j

\* first half of C4: the next sequence number is advanced only by a piece
\* confirmed ok, and then to that piece's sequence number + 1; a piece
\* answered fail or too_large does not advance it
AdvancedOnlyByOk ==
    [][ nextSeqRef' > nextSeqRef =>
            /\ Len(okLog') = Len(okLog) + 1
            /\ nextSeqRef' = okLog'[Len(okLog')].seq + 1 ]_vars

\* second half of C4: the attempt that follows an attempt of the same session
\* starts at the sequence number of that attempt's first unconfirmed piece
NextAttemptResumes ==
    \A k \in DOMAIN flights :
        ( /\ flights[k].pc = "sent"
          /\ lastAttempt.ended
          /\ lastAttempt.sid = flights[k].sid )
        => flights[k].seq = lastAttempt.resume

\* C4: the next sequence number is advanced only by a piece whose delivery
\* returned ok, and then to that piece's sequence number + 1; fail and
\* too_large leave it unchanged, so the next attempt starts again at the
\* sequence number of the first unconfirmed piece.
C4_NextSeqContract ==
    AdvancedOnlyByOk /\ []NextAttemptResumes

\* C5: every event a flush attempt removes from the buffer was in a piece
\* confirmed ok in that same attempt.
C5_RemovedWereConfirmed ==
    lastAttempt.ended =>
        \A j \in DOMAIN lastAttempt.before :
            lastAttempt.before[j] \notin Ids2(lastAttempt.after)
                => lastAttempt.before[j] \in lastAttempt.confirmed

\* C6: an attempt that confirmed N events leaves the buffer as it was before
\* the drop without its first N elements: N shorter, the rest kept in order.
C6_DropsExactlyFirstN ==
    (lastAttempt.ended /\ lastAttempt.sentCount > 0) =>
        /\ Len(lastAttempt.after) = Len(lastAttempt.before) - lastAttempt.sentCount
        /\ lastAttempt.after = SliceFrom(lastAttempt.before, lastAttempt.sentCount)

\* C7 (the safety half of at-least-once delivery): while a session is active,
\* every event appended in it is confirmed ok for it or still in the buffer;
\* an event that is neither can never be delivered, whatever the collector
\* answers from then on.
C7_UnconfirmedStayBuffered ==
    (sessionIdRef # 0 /\ recording /\ ~isStoppingRef) =>
        \A id \in DOMAIN emittedIn :
            emittedIn[id] = sessionIdRef =>
                id \in Ids(rrBufferRef) \/ id \in OkIds(sessionIdRef)

\* C8: of two pieces sent in one session, the one with the lower sequence
\* number holds only events appended before every event of the other.
C8_LowerSeqHoldsEarlierEvents ==
    \A p \in sentLog : \A q \in sentLog :
        (p.sid = q.sid /\ p.seq < q.seq) =>
            \A a \in DOMAIN p.ids : \A b \in DOMAIN q.ids : p.ids[a] < q.ids[b]

\* C9: at most one flush attempt is in flight, and a trigger that arrives
\* while isFlushing is set starts nothing and sends nothing and leaves the
\* buffer, the next sequence number and the backoff as they are.  (In the
\* step of a stop the write of the next sequence number is stop's own line
\* 1034, not the trigger's, so the timer trigger is the one checked for it.)
C9_SingleFlight ==
    /\ [](Len(flights) <= 1)
    /\ [](isFlushingRef <=> Len(flights) = 1)
    /\ [][ (isFlushingRef /\ lastTrigger' # lastTrigger) =>
               /\ lastTrigger'.outcome = "busy"
               /\ UNCHANGED << flights, sentLog, rrBufferRef, backoffRef,
                               isFlushingRef, okLog >>
               /\ lastTrigger'.reason = "timer" => UNCHANGED nextSeqRef ]_vars

\* C9 witness: a trigger was dropped while an attempt was in flight
C9_Witness ==
    /\ lastTrigger.outcome = "busy"
    /\ Len(flights) = 1
    /\ flights[1].pc = "sent"

\* C10: backoff is 0 right after a piece is confirmed ok, after a failed
\* attempt it is at least twice what it was, capped at 4000 ms, and it never
\* exceeds 4000 ms.
C10_Backoff ==
    /\ [](backoffRef <= BACKOFF_CEILING)
    /\ [][ Len(okLog') > Len(okLog) => backoffRef' = 0 ]_vars
    /\ [][ (Len(flights') < Len(flights) /\ okLog' = okLog) =>
               backoffRef' >= Min(2 * backoffRef, BACKOFF_CEILING) ]_vars

\* C10 witness: failures drove the backoff to its ceiling after a success
C10_Witness ==
    /\ backoffRef = BACKOFF_CEILING
    /\ okLog # <<>>

\* C11: a piece of more than one event answered too_large (413) is replaced
\* at its position by at least two strictly smaller sub-pieces that together
\* hold the same events (and are then sent with the sequence numbers s, s+1,
\* ... that their positions give them).
C11_ResplitShrinks ==
    \A k \in DOMAIN flights :
        LET r == flights[k].resplit
        IN  r.of # <<>> =>
                /\ Len(r.into) >= 2
                /\ \A j \in DOMAIN r.into : Len(r.into[j]) < Len(r.of)
                /\ Ids2(Concat(r.into)) = Ids2(r.of)
                /\ Len(Concat(r.into)) = Len(r.of)

\* C12: when the finish call of a stop is issued, the flush stop asked for
\* has run over the buffer and has finished (or the buffer was empty), also
\* when a timer- or size-triggered attempt was in flight when stop was called.
C12_FinalFlushBeforeFinish ==
    (stopPc = "finish" /\ lastTrigger.reason = "stop") =>
        \/ lastTrigger.outcome = "empty"
        \/ lastTrigger.outcome = "started" /\ flights = <<>>

\* where a step stands in the teardown of the last stop (0: it did not run)
Pos(step) ==
    IF \E j \in DOMAIN teardownLog : teardownLog[j] = step
    THEN CHOOSE j \in DOMAIN teardownLog : teardownLog[j] = step
    ELSE 0

\* C13: once stop has cleared the session identifier of a session in which
\* an action-expiry timer was scheduled, it has (a) cancelled the periodic
\* flush timer, then (b) run the final flush to its end, then (c) cancelled
\* the action-expiry timer, then (d) uninstalled the network interceptor and
\* the click listener, all four before the session identifier was cleared.
C13_TeardownOrder ==
    (Pos("sid") > 0 /\ aidExpiryTimerRef # 0) =>
        /\ 0 < Pos("flushTimer")
        /\ Pos("flushTimer") < Pos("flush")
        /\ Pos("flush") < Pos("aidTimer")
        /\ Pos("aidTimer") < Pos("fetch")
        /\ Pos("aidTimer") < Pos("listener")
        /\ Pos("fetch") < Pos("sid")
        /\ Pos("listener") < Pos("sid")

\* C14: a session whose 60-second cap timer has fired is being torn down as
\* by a manual stop (stop is running: final flush, finish call, identifier
\* cleared) or is already gone.
C14_CapAutoStops ==
    \A s \in capFired : s = sessionIdRef => isStoppingRef

\* the most recent click before click j that minted an action (0: none)
PrevAction(j) ==
    LET minted == {i \in 1..(j - 1) : clickLog[i].aid # 0}
    IN  IF minted = {} THEN 0
        ELSE CHOOSE i \in minted : \A o \in minted : o <= i

\* click j repeats the most recent action of its session within the window
Repeats(j) ==
    LET i == PrevAction(j)
    IN  /\ i # 0
        /\ clickLog[j].sid # 0
        /\ clickLog[i].sid = clickLog[j].sid
        /\ clickLog[i].label = clickLog[j].label
        /\ clickLog[j].t >= clickLog[i].t
        /\ clickLog[j].t - clickLog[i].t < CLICK_DEDUPE_MS

ActionRecords(aid) ==
    {j \in DOMAIN actionPosts : actionPosts[j].aid = aid /\ ~actionPosts[j].hasReq}

\* C15: a click with the label of the most recent action, less than 250 ms
\* after it, mints no action, posts no action record and leaves the current
\* action and its expiry as they are; every action minted has exactly one
\* action record, so two such clicks give one identifier and one record.
C15_SameLabelClickSuppressed ==
    /\ [](\A j \in DOMAIN clickLog : Repeats(j) => clickLog[j].aid = 0)
    /\ [](\A j \in DOMAIN clickLog :
              clickLog[j].aid # 0 => Cardinality(ActionRecords(clickLog[j].aid)) = 1)
    /\ [](Len(SelectSeq(actionPosts, LAMBDA r : ~r.hasReq))
              = Cardinality({j \in DOMAIN clickLog : clickLog[j].aid # 0}))
    /\ [][ (Len(clickLog') > Len(clickLog) /\ clickLog'[Len(clickLog')].aid = 0)
               => UNCHANGED << currentAidRef, actionPosts, aidTimers,
                               lastClickRef >> ]_vars

\* C15 witness: the second of two same-label clicks 125 ms apart was suppressed
C15_Witness ==
    /\ Len(clickLog) >= 2
    /\ clickLog[1].aid # 0
    /\ Repeats(2)
    /\ clickLog[2].t > clickLog[1].t
    /\ clickLog[2].aid = 0
    /\ currentAidRef = clickLog[1].aid

\* when (client clock) the action was minted
MintedAt(aid) ==
    LET j == CHOOSE i \in DOMAIN clickLog : clickLog[i].aid = aid
    IN  clickLog[j].at

\* C16: the current action was minted at most 5 s ago, its expiry is pending
\* for 5 s after its minting, and no expiry scheduled for another (older)
\* action is pending beside it.
C16_ActionExpires ==
    currentAidRef # 0 =>
        /\ now <= MintedAt(currentAidRef) + AID_TTL_MS
        /\ \E tm \in aidTimers :
               tm.aid = currentAidRef /\ tm.at = MintedAt(currentAidRef) + AID_TTL_MS
        /\ \A tm \in aidTimers : tm.aid = currentAidRef

\* C16 witness: a second action superseded the first one later on and is
\* still current just before its own expiry
C16_Witness ==
    /\ Len(clickLog) >= 2
    /\ clickLog[1].aid # 0
    /\ clickLog[2].aid # 0
    /\ clickLog[2].at > clickLog[1].at
    /\ currentAidRef = clickLog[2].aid
    /\ now = clickLog[2].at + AID_TTL_MS

Markers(aid) ==
    {j \in DOMAIN actionPosts : actionPosts[j].aid = aid /\ actionPosts[j].hasReq}

MintedAids == {actionPosts[j].aid : j \in DOMAIN actionPosts}

\* C17: at most one request marker is posted per action identifier.
C17_OneMarkerPerAction ==
    \A aid \in MintedAids : Cardinality(Markers(aid)) <= 1

\* C17 witness: after the marker of an action was posted, another
\* application response arrived under the same action
C17_Witness ==
    /\ lastResponse.app
    /\ lastResponse.aid # 0
    /\ ~lastResponse.first
    /\ Cardinality(Markers(lastResponse.aid)) = 1
    /\ pending = EmptyBag

\* C18: an action is in the dedup set only when one request marker was
\* posted for it (the first application response under it adds it and posts
\* the marker).
C18_MarkedMeansPosted ==
    \A aid \in hasReqMarkedRef : Cardinality(Markers(aid)) = 1

\* the call left with the session and action headers
HasBugHeaders(p) == p.hdrSid # 0 \/ p.hdrAid # 0

\* C19: an outbound call carries the session and action headers exactly when,
\* at its issue, a session was active, an action was current, the call was
\* not for the collector and did not carry the SDK-internal marker; the
\* values are the session and the action of that moment.
C19_BugHeadersIff ==
    \A p \in BagToSet(pending) :
        /\ HasBugHeaders(p) <=>
               (p.sidAt # 0 /\ p.aidAt # 0 /\ ~p.internal /\ ~p.sdkInternal)
        /\ HasBugHeaders(p) => (p.hdrSid = p.sidAt /\ p.hdrAid = p.aidAt)

\* C19 witness: of two calls issued under the same action, the application
\* call carries the headers and the one with the SDK-internal marker does not
C19_Witness ==
    \E p \in BagToSet(pending) : \E q \in BagToSet(pending) :
        /\ HasBugHeaders(p)
        /\ q.aidAt = p.aidAt /\ q.sidAt = p.sidAt
        /\ q.sdkInternal /\ ~q.internal
        /\ ~HasBugHeaders(q)

\* C20: no call that is not for the collector leaves with the tenant header,
\* the SDK token or the user's Authorization added by an interceptor.
C20_TenantAuthInternalOnly ==
    \A p \in BagToSet(pending) :
        ~p.internal => (~p.hdrTenant /\ ~p.hdrSdkToken /\ ~p.hdrAuth)

\* C21: whenever window.fetch is wrapped, the function the wrapper calls
\* through to is the native fetch, so the wrapper never calls a wrapper and
\* one intercepted call reaches the native fetch exactly once.
C21_WrapperCallsOriginal ==
    fetchDepth > 0 => (WrapperTarget = 0 /\ NativeCallsPerFetch = 1)

\* the events of a one-event piece an attempt stopped at without an ok
StoppedAtSingle(k) ==
    /\ flights[k].pc = "sent"
    /\ flights[k].reason # "stop"
    /\ Len(Piece(flights[k])) = 1
    /\ Len(flights') < Len(flights)
    /\ okLog' = okLog

\* C26: when an attempt stops at a one-event piece that was not confirmed
\* (answered too_large or fail), the event is still in the buffer, the backoff
\* is raised, and the next sequence number is the one the piece was sent
\* with, so the next attempt sends it again under the same number.
C26_SingleTooLargeKept ==
    [][ \A k \in DOMAIN flights :
            StoppedAtSingle(k) =>
                /\ Ids(Piece(flights[k])) \subseteq Ids(rrBufferRef')
                /\ backoffRef' = NextBackoff(backoffRef)
                /\ nextSeqRef' = PieceSeq(flights[k]) ]_vars

\* the positions of the input a piece holds
IsContiguous(piece) ==
    \A j \in 1..(Len(piece) - 1) : piece[j + 1].id = piece[j].id + 1

\* the contiguous sub-slices of the input that do not fit and get bisected
Bisected ==
    {cur \in {SubSeq(splitIn, a, b) : a \in DOMAIN splitIn, b \in DOMAIN splitIn} :
         ~Accepts(cur, 1)}

\* C28: the pieces splitEventsBySize returns are contiguous sub-slices of the
\* input, every input event is in exactly one piece, no piece is empty when
\* the input is not, and every bisection gives two non-empty halves shorter
\* than what they bisect (so the work list runs empty).
C28_SplitIsPartition ==
    splitDone =>
        /\ \A j \in DOMAIN splitOut : IsContiguous(splitOut[j])
        /\ \A e \in DOMAIN splitIn :
               Cardinality({j \in DOMAIN splitOut : e \in Ids(splitOut[j])}) = 1
        /\ Len(Concat(splitOut)) = Len(splitIn)
        /\ splitIn # <<>> => \A j \in DOMAIN splitOut : splitOut[j] # <<>>
        /\ \A cur \in Bisected :
               LET halves == PushHalves(<<>>, cur)
               IN  /\ halves[1] # <<>> /\ halves[2] # <<>>
                   /\ Len(halves[1]) < Len(cur) /\ Len(halves[2]) < Len(cur)
                   /\ halves[1] \o halves[2] = cur

\* C28 witness: an input of four events was bisected twice
C28_Witness ==
    /\ splitDone
    /\ Len(splitIn) = MaxSplitLen
    /\ Len(splitOut) >= 3
    /\ \E j \in DOMAIN splitOut : Len(splitOut[j]) >= 2

RECURSIVE PiecesLeft(_, _)
\* what an attempt still has to do: every piece left of n events can cost at
\* most 2n - 1 requests when each too_large answer bisects it
PiecesLeft(pieces, i) ==
    IF i >= Len(pieces) THEN 0
    ELSE (2 * Len(pieces[i + 1]) - 1) + PiecesLeft(pieces, i + 1)

\* C29: every answer that does not end an attempt brings it closer to its
\* end (a confirmed piece is done, a piece answered too_large is replaced by
\* smaller ones), so an attempt issues finitely many requests whatever the
\* collector answers; when no attempt is running the in-flight flag is clear.
C29_AttemptTerminates ==
    /\ [](flights = <<>> => ~isFlushingRef)
    /\ [][ \A k \in DOMAIN flights :
               (/\ k \in DOMAIN flights'
                /\ flights[k].pc = "sent"
                /\ flights'[k].pc = "sent"
                /\ flights'[k] # flights[k])
               => PiecesLeft(flights'[k].pieces, flights'[k].i)
                      < PiecesLeft(flights[k].pieces, flights[k].i) ]_vars

Max(a, b) == IF a > b THEN a ELSE b

\* an attempt ends on a piece that was not confirmed
AttemptFails == Len(flights') < Len(flights) /\ okLog' = okLog

\* C30: when a piece is answered fail (or too_large for a one-event piece)
\* the backoff becomes twice its value, at least 250 ms and at most 4000 ms
\* (250 ms on the first failure), and no further request is sent in that
\* attempt.
C30_BackoffDoubledFrom250 ==
    [][ AttemptFails =>
            /\ backoffRef' = Min(BACKOFF_CEILING, Max(BACKOFF_FLOOR, 2 * backoffRef))
            /\ sentLog' = sentLog ]_vars

\* C22: whatever attachAxios calls and automatic attachments were made on
\* window.axios, it carries at most one request and one response interceptor
\* of the SDK, and exactly one of each once it was attached to.
C22_AttachIdempotent ==
    /\ Len(windowAxios.request) <= 1
    /\ Len(windowAxios.response) <= 1
    /\ windowAxios.reproAttached =>
           (Len(windowAxios.request) = 1 /\ Len(windowAxios.response) = 1)

\* C22 witness: attachAxios attached first, a start then ran the automatic
\* attachment on the same instance
C22_Witness ==
    /\ windowAxios.request = << "manual" >>
    /\ windowAxios.response = << "manual" >>
    /\ sessionsCreated >= 1

\* C23: a 401 answered to a collector call that an interceptor observed
\* invokes the unauthorized callback, and the callback is invoked for nothing
\* else (not for a 401 answered to an application call).
C23_UnauthorizedOn401 ==
    /\ (lastResponse.post = 0 /\ lastResponse.due) => lastResponse.unauth
    /\ lastResponse.unauth => (lastResponse.due /\ lastResponse.status = 401)

\* a post of the SDK is answered in this step
PostAnswered ==
    \E j \in DOMAIN actionPosts :
        /\ ~actionPosts[j].answered
        /\ j \in DOMAIN actionPosts'
        /\ actionPosts'[j].answered

OffsetOfClick(j) == clickLog[j].t - clickLog[j].at
OffsetOfCall(p) == p.hdrStart - p.at

\* C24: the clock offset changes only in the step that starts a session
\* (from its creation response), and every timestamp produced during the
\* active session (action records, request-start headers) is the local time
\* plus the offset of that session.
C24_OffsetFixedPerSession ==
    /\ [](sessionIdRef # 0 =>
             /\ \A j \in DOMAIN clickLog :
                    clickLog[j].sid = sessionIdRef => OffsetOfClick(j) = offsetRef
             /\ \A p \in BagToSet(pending) :
                    (p.sidAt = sessionIdRef /\ p.seen /\ ~p.sdkInternal)
                        => OffsetOfCall(p) = offsetRef)
    /\ [][ offsetRef' # offsetRef =>
               (sessionIdRef' # sessionIdRef /\ sessionIdRef' # 0) ]_vars

\* C24 witness: clicks of two sessions carry different offsets, and a call of
\* the second session carries the offset of its clicks
C24_Witness ==
    /\ sessionIdRef # 0
    /\ \E i \in DOMAIN clickLog : \E j \in DOMAIN clickLog :
           /\ clickLog[i].sid # 0
           /\ clickLog[j].sid = sessionIdRef
           /\ clickLog[i].sid # clickLog[j].sid
           /\ OffsetOfClick(i) # OffsetOfClick(j)
           /\ clickLog[j].at > 0
    /\ \E p \in BagToSet(pending) : p.sidAt = sessionIdRef /\ p.seen

\* the click received in this step
ClickReceived == Len(clickLog') = Len(clickLog) + 1
NewClick == clickLog'[Len(clickLog')]

\* C25: a click inside the SDK's own controls, or while no session is
\* active, mints no action, posts no action record and leaves the current
\* action, its expiry timer and the last-click record as they are.
C25_InternalClickIgnored ==
    [][ (ClickReceived /\ (NewClick.label = SdkSurface \/ sessionIdRef = 0))
            => /\ NewClick.aid = 0
               /\ UNCHANGED << currentAidRef, actionPosts, aidTimers,
                               aidExpiryTimerRef, lastClickRef >> ]_vars

\* C25 witness: a click on the SDK's controls followed a click that minted
\* the action still current
C25_Witness ==
    /\ Len(clickLog) >= 2
    /\ clickLog[1].aid # 0
    /\ clickLog[2].label = SdkSurface
    /\ clickLog[2].sid = clickLog[1].sid
    /\ currentAidRef = clickLog[1].aid

\* the events of a piece list, whatever the order of the pieces
PieceEvents(pieces) ==
    UNION {{pieces[j][n] : n \in DOMAIN pieces[j]} : j \in DOMAIN pieces}
Waiting(k) == flights[k].pc = "delay"

\* C31: an attempt that starts with backoff b > 0 issues no delivery request
\* before b has elapsed, keeps the in-flight flag set while it waits (a
\* trigger arriving then starts nothing), and takes its snapshot of the
\* buffer and its base sequence number when the delay is over.
C31_DelayBeforeSnapshot ==
    /\ [](\A k \in DOMAIN flights : Waiting(k) => isFlushingRef)
    /\ [][ \A k \in DOMAIN flights : Waiting(k) =>
              /\ Len(flights') = Len(flights)
              /\ sentLog' # sentLog =>
                     /\ now >= flights[k].due
                     /\ flights'[k].pc = "sent"
                     /\ flights'[k].seq = nextSeqRef
                     /\ PieceEvents(flights'[k].pieces) = PieceEvents(<< rrBufferRef >>)
                     /\ sentLog' = sentLog \cup {Request(flights'[k])} ]_vars

\* C31 witness: an attempt waited out a delay during which a trigger was
\* dropped and an event was appended, and its first request holds that event
C31_Witness ==
    \E k \in DOMAIN flights :
        LET f == flights[k]
        IN  /\ f.pc = "sent"
            /\ f.i = 0
            /\ backoffRef > 0
            /\ now >= f.due
            /\ lastTrigger.outcome = "busy"
            /\ \E e \in PieceEvents(f.pieces) :
                   /\ e.timestamp > f.due - backoffRef
                   /\ e.timestamp < f.due
                   /\ e.id \in Ids2(Request(f).ids)

\* the events of the first n pieces
PrefixIds(f, n) == {e.id : e \in PieceEvents(SubSeq(f.pieces, 1, n))}
InFlight(k) == flights[k].pc = "sent" /\ Len(flights') = Len(flights)

\* C32: the pieces of an attempt are sent one after another in list order: a
\* request for the next piece is issued only in the step that confirms the
\* piece before it, the confirmed events are always those of a prefix of the
\* piece list, and after a failed piece the attempt sends and confirms nothing.
C32_PiecesInOrder ==
    /\ [](\A k \in DOMAIN flights : flights[k].pc = "sent" =>
             /\ flights[k].i < Len(flights[k].pieces)
             /\ flights[k].confirmed = PrefixIds(flights[k], flights[k].i))
    /\ [][ \A k \in DOMAIN flights :
              /\ (InFlight(k) /\ flights'[k].i # flights[k].i) =>
                     /\ flights'[k].i = flights[k].i + 1
                     /\ okLog' = Append(okLog,
                            [sid |-> flights[k].sid,
                             seq |-> flights[k].seq + flights[k].i,
                             ids |-> IdSeq(flights[k].pieces[flights[k].i + 1]),
                             gzip |-> okLog'[Len(okLog')].gzip])
                     /\ Ids2(Request(flights'[k]).ids) =
                            PrefixIds(flights'[k], flights'[k].i + 1)
                                \ PrefixIds(flights'[k], flights'[k].i)
              /\ (InFlight(k) /\ flights'[k].i = flights[k].i) => okLog' = okLog
              /\ (flights[k].pc = "sent" /\ Len(flights') < Len(flights)
                    /\ flights[k].i + 1 < Len(flights[k].pieces))
                     => sentLog' = sentLog ]_vars

\* C32 witness: the second piece of an attempt is out, the first one confirmed
C32_Witness ==
    \E k \in DOMAIN flights :
        /\ flights[k].pc = "sent"
        /\ flights[k].i = 1
        /\ Len(flights[k].pieces) >= 2
        /\ flights[k].confirmed # {}
        /\ Request(flights[k]) \in sentLog

\* C33: a delivery function returns ok exactly for a 2xx status, too_large
\* exactly for 413 and fail for every other status and for a network error;
\* on 401 it returns fail and calls the unauthorized callback, and on no
\* other answer; it always returns one of the three.
C33_ResponseClasses ==
    sendCall.res # "none" =>
        LET status == sendCall.status
            is2xx  == status # NetworkError /\ status >= 200 /\ status <= 299
        IN  /\ sendCall.res \in {"ok", "too_large", "fail"}
            /\ sendCall.res = "ok" <=> is2xx
            /\ sendCall.res = "too_large" <=> status = 413
            /\ sendCall.unauthorized <=> status = 401
            /\ status = 401 => sendCall.res = "fail"

\* C33 witness: a 401 was classified fail and the callback was called
C33_Witness ==
    /\ sendCall.status = 401
    /\ sendCall.res = "fail"
    /\ sendCall.unauthorized

\* the requests issued for the piece flight f is at
RequestsFor(f) ==
    {r \in sentLog : /\ r.sid = f.sid
                     /\ r.seq = f.seq + f.i
                     /\ r.ids = IdSeq(f.pieces[f.i + 1])}
SerializedSize(f) == EnvelopeBytes + SumBytes(f.pieces[f.i + 1])

\* C34: the piece an attempt is at went out through the compressed transport
\* exactly when its envelope is larger than 65536 bytes; either way the
\* request carries the piece's events and the piece's own sequence number.
C34_GzipAboveThreshold ==
    \A k \in DOMAIN flights : flights[k].pc = "sent" =>
        /\ RequestsFor(flights[k]) # {}
        /\ \A r \in RequestsFor(flights[k]) :
               r.gzip <=> SerializedSize(flights[k]) > 65536

\* C34 witness: a piece of exactly 65536 bytes is out uncompressed, and a
\* piece of 65537 bytes went out compressed
C34_Witness ==
    /\ \E k \in DOMAIN flights :
           /\ flights[k].pc = "sent"
           /\ SerializedSize(flights[k]) = 65536
           /\ \E r \in RequestsFor(flights[k]) : ~r.gzip
    /\ \E r \in sentLog : r.gzip /\ Len(r.ids) = 1

Appended == Len(emittedIn') = Len(emittedIn) + 1

SessionStays == sessionIdRef # 0 /\ sessionIdRef' = sessionIdRef

\* C36: the next sequence number is 1 when a session becomes active; while
\* that session stays active it never decreases and is written only by a
\* flush attempt of that session.
C36_NextSeqPerSession ==
    [][ /\ (sessionIdRef' # sessionIdRef /\ sessionIdRef' # 0) => nextSeqRef' = 1
        /\ SessionStays => nextSeqRef' >= nextSeqRef
        /\ (SessionStays /\ nextSeqRef' # nextSeqRef) =>
               \E k \in DOMAIN flights : /\ flights[k].pc = "sent"
                                         /\ flights[k].sid = sessionIdRef ]_vars

\* stop() goes on to its finish call (line 1040) in this step, with the
\* session identifier it reads at line 997
FinishIssued == stopPc' = "finish" /\ stopPc # "finish"
\* the session that was active when the stop() that awaited its flush was called
StoppedSession == {flights[k].sid : k \in {n \in DOMAIN flights : flights[n].reason = "stop"}}

\* C37: a finish call is issued only while no other stop is under way, with a
\* session identifier that is set, and that identifier is the one of the
\* session the stop was called for.
C37_FinishOncePerSession ==
    [][ FinishIssued =>
          /\ sessionIdRef # 0
          /\ isStoppingRef'
          /\ stopPc = "idle" => ~isStoppingRef
          /\ stopPc = "flush" => StoppedSession = {sessionIdRef} ]_vars

\* the events flight k drops from the buffer when it ends in this step
DroppedBy(k) ==
    IF Len(flights') < Len(flights) /\ Len(rrBufferRef') < Len(rrBufferRef)
    THEN {rrBufferRef[j] : j \in 1..(Len(rrBufferRef) - Len(rrBufferRef'))}
    ELSE {}

\* C38: every events request posted to the endpoint of a session holds only
\* events that were appended while that session was the active one, and an
\* attempt started for a session drops only events of that session.
C38_SessionIsolation ==
    /\ [](\A r \in sentLog : \A j \in DOMAIN r.ids : emittedIn[r.ids[j]] = r.sid)
    /\ [][ \A k \in DOMAIN flights :
              (flights[k].pc = "sent" /\ Len(flights') < Len(flights)) =>
                  \A e \in DroppedBy(k) : e.sid = flights[k].sid ]_vars

\* the call whose response is handled in this step
Answered == BagToSet(pending (-) pending')

\* C39: the action a response adds to the dedup set is the action whose
\* identifier was put on that request's header when it was issued.
C39_MarkedIsHeaderAction ==
    [][ \A aid \in hasReqMarkedRef' \ hasReqMarkedRef :
            \E p \in Answered : p.hdrAid = aid ]_vars

\* a stop has completed and no session was started since
Stopped == sessionsCreated > 0 /\ ~recording /\ stopPc = "idle"

\* C40: between the completion of a stop and the next start the session
\* identifier and the current action are null, the dedup set is empty, the
\* flush timer is cancelled and window.fetch is the function that was there
\* before start; no call gets session or action headers, no click mints an
\* action and no flush attempt starts.
C40_QuiescentAfterStop ==
    /\ [](Stopped =>
             /\ sessionIdRef = 0
             /\ currentAidRef = 0
             /\ hasReqMarkedRef = {}
             /\ ~rrFlushTimerRef
             /\ fetchDepth = 0
             /\ \A p \in BagToSet(pending) :
                    p.sidAt = 0 => (p.hdrSid = 0 /\ p.hdrAid = 0))
    /\ [][ (Stopped /\ Stopped') =>
               /\ Len(flights') <= Len(flights)
               /\ Len(actionPosts') = Len(actionPosts)
               /\ currentAidRef' = 0 ]_vars

====
